---- MODULE Spec2Model ----
(***************************************************************************)
(* A model of client/commands/statistics.py: the two statistics collectors *)
(* (AnnotationCountCollector, FixmeCountCollector), the aggregation driver *)
(* _count, the batch parser _parse_paths, the path resolver _find_paths    *)
(* and the command Statistics._run.                                        *)
(*                                                                         *)
(* Three specifications share the collectors' handlers:                    *)
(*   Spec       the command: a process that runs Statistics._run on a      *)
(*              batch of paths, possibly more than once;                   *)
(*   VisitSpec  collectors driven through arbitrary sequences of visits;   *)
(*   PathSpec   _find_paths applied to bounded inputs.                     *)
(***************************************************************************)
EXTENDS Integers, Sequences, FiniteSets, TLC

VARIABLES
    paths,                  \* Spec: the resolved paths handed to _parse_paths
    run,                    \* Spec: number of the current call of _run
    pc,                     \* position in _run / in the driving harness
    k,                      \* _parse_paths: index of the next path
    parsed_paths,           \* _run: the trees parsed so far
    i,                      \* _count: index of the tree being visited
    j,                      \* visit: index of the next node of that tree
    annotations,            \* the AnnotationCountCollector instance
    fixmes,                 \* the FixmeCountCollector instance
    default_fixme_counts,   \* the defaultdict built once at line 79
    next_id,                \* identity given to the next object constructed
    visits,                 \* history: tree visits started in this run
    returned,               \* history: what each _count call returned
    stdout,                 \* what log.stdout.write has received
    node,                   \* VisitSpec: the node handed to the last visit
    steps,                  \* VisitSpec: number of visits made
    matched,                \* history: codes recorded into the defaultdict
    inputs,                 \* history: the batch of each call of _run
    constructed_with,       \* history: fixme_counts as the collector got it
    local_configuration,    \* PathSpec: _find_paths' first argument
    filter_paths,           \* PathSpec: _find_paths' second argument
    found                   \* PathSpec: _find_paths' result

vars == <<paths, run, pc, k, parsed_paths, i, j, annotations, fixmes,
          default_fixme_counts, next_id, visits, returned, stdout, node,
          steps, matched, inputs, constructed_with, local_configuration,
          filter_paths, found>>

pipeVars == <<paths, run, k, parsed_paths, i, j, visits, returned, stdout, inputs,
              constructed_with>>
visitVars == <<node, steps>>
pathVars == <<local_configuration, filter_paths, found>>

----------------------------------------------------------------------------
(* Bounds *)

MaxPaths == 2       \* paths in a batch
MaxRuns == 2        \* calls of _run in one process
MaxParams == 2      \* parameters of a function definition
MaxVisits == 2      \* visits in VisitSpec
MaxPieces == 3      \* pieces of an override string
MaxFilters == 2     \* relative filters

None == "None"

----------------------------------------------------------------------------
(* Strings are sequences of one-character strings. *)

Concat(ss) ==
    LET RECURSIVE go(_)
        go(n) == IF n = 0 THEN <<>> ELSE go(n - 1) \o ss[n]
    IN go(Len(ss))

StartsWithAt(s, p, at) ==
    /\ at + Len(p) - 1 <= Len(s)
    /\ \A n \in 1..Len(p) : s[at + n - 1] = p[n]

Digits == {"0", "1", "2", "3", "4", "5", "6", "7", "8", "9"}

\* Length of the longest run of digits of s that starts at position at.
RECURSIVE DigitRun(_, _)
DigitRun(s, at) ==
    IF at <= Len(s) /\ s[at] \in Digits THEN 1 + DigitRun(s, at + 1) ELSE 0

----------------------------------------------------------------------------
(* dict: a sequence of <<key, value>> pairs in insertion order. *)

Keys(d) == {d[n][1] : n \in 1..Len(d)}

Get(d, key) ==
    IF key \in Keys(d)
    THEN LET n == CHOOSE m \in 1..Len(d) : d[m][1] = key IN d[n][2]
    ELSE 0

Put(d, key, v) ==
    IF key \in Keys(d)
    THEN [n \in 1..Len(d) |-> IF d[n][1] = key THEN <<key, v>> ELSE d[n]]
    ELSE Append(d, <<key, v>>)

----------------------------------------------------------------------------
(* AnnotationCountCollector *)

AnnotationCountCollector_init(id) ==
    [id |-> id,
     return_count |-> 0,
     annotated_return_count |-> 0,
     globals_count |-> 0,
     annotated_globals_count |-> 0,
     parameter_count |-> 0,
     annotated_parameter_count |-> 0]

AnnotationCountCollector_build_json(self) ==
    [return_count |-> self.return_count,
     annotated_return_count |-> self.annotated_return_count,
     globals_count |-> self.globals_count,
     annotated_globals_count |-> self.annotated_globals_count,
     parameter_count |-> self.parameter_count,
     annotated_parameter_count |-> self.annotated_parameter_count]

RECURSIVE check_parameter_annotations_loop(_, _, _)
check_parameter_annotations_loop(self, parameters, n) ==
    IF n > Len(parameters) THEN self
    ELSE LET counted == [self EXCEPT !.parameter_count = @ + 1]
             annotation == parameters[n].annotation
             after == IF annotation # None
                      THEN [counted EXCEPT !.annotated_parameter_count = @ + 1]
                      ELSE counted
         IN check_parameter_annotations_loop(after, parameters, n + 1)

check_parameter_annotations(self, parameters) ==
    check_parameter_annotations_loop(self, parameters, 1)

\* Mutant: the parameters with default values are not counted.
visit_FunctionDef_params_only(self, fn) ==
    LET r1 == [self EXCEPT !.return_count = @ + 1]
        r2 == IF fn.returns # None
              THEN [r1 EXCEPT !.annotated_return_count = @ + 1]
              ELSE r1
    IN check_parameter_annotations(r2, fn.params)

visit_FunctionDef(self, fn) ==
    LET r1 == [self EXCEPT !.return_count = @ + 1]
        r2 == IF fn.returns # None
              THEN [r1 EXCEPT !.annotated_return_count = @ + 1]
              ELSE r1
        p1 == check_parameter_annotations(r2, fn.default_params)
    IN check_parameter_annotations(p1, fn.params)

\* Mutant: a plain assignment is counted as annotated too.
visit_Assign_as_annotated(self, nd) ==
    [self EXCEPT !.globals_count = @ + 1, !.annotated_globals_count = @ + 1]

visit_Assign(self, nd) ==
    [self EXCEPT !.globals_count = @ + 1]

\* Mutant: an annotated assignment is left out of the total.
visit_AnnAssign_annotated_only(self, nd) ==
    [self EXCEPT !.annotated_globals_count = @ + 1]

visit_AnnAssign(self, nd) ==
    [self EXCEPT !.globals_count = @ + 1, !.annotated_globals_count = @ + 1]

\* CSTVisitor dispatch by method name; other node kinds have no handler.
AnnotationCountCollector_on_visit(self, nd) ==
    CASE nd.kind = "FunctionDef" -> visit_FunctionDef(self, nd)
      [] nd.kind = "Assign" -> visit_Assign(self, nd)
      [] nd.kind = "AnnAssign" -> visit_AnnAssign(self, nd)
      [] OTHER -> self

----------------------------------------------------------------------------
(* FixmeCountCollector *)

\* "# pyre-fixme\[(\d*)\]:"
fixme_regex_prefix == <<"#", " ", "p", "y", "r", "e", "-", "f", "i", "x", "m", "e", "[">>
fixme_regex_suffix == <<"]", ":">>

\* re.match(fixme_regex, value): whether the pattern matches at the start of
\* value, and then its group (\d*).  \d* is greedy and the suffix starts
\* with a non-digit, so the group is the whole digit run.
NoMatch == [matched |-> FALSE, group1 |-> <<>>]

\* Mutant: the group needs at least one digit (\d+ in place of \d*).
re_match_one_digit(value) ==
    IF ~StartsWithAt(value, fixme_regex_prefix, 1) THEN NoMatch
    ELSE LET at == Len(fixme_regex_prefix) + 1
             n == DigitRun(value, at)
         IN IF n >= 1 /\ StartsWithAt(value, fixme_regex_suffix, at + n)
            THEN [matched |-> TRUE, group1 |-> SubSeq(value, at, at + n - 1)]
            ELSE NoMatch

re_match(value) ==
    IF ~StartsWithAt(value, fixme_regex_prefix, 1) THEN NoMatch
    ELSE LET at == Len(fixme_regex_prefix) + 1
             n == DigitRun(value, at)
         IN IF StartsWithAt(value, fixme_regex_suffix, at + n)
            THEN [matched |-> TRUE, group1 |-> SubSeq(value, at, at + n - 1)]
            ELSE NoMatch

\* self.fixme_counts[match.group(1)] += 1 on a defaultdict(int)
visit_Comment(fixme_counts, nd) ==
    LET match == re_match(nd.value)
    IN IF match.matched
       THEN Put(fixme_counts, match.group1, Get(fixme_counts, match.group1) + 1)
       ELSE fixme_counts

FixmeCountCollector_on_visit(fixme_counts, nd) ==
    CASE nd.kind = "Comment" -> visit_Comment(fixme_counts, nd)
      [] OTHER -> fixme_counts

\* FixmeCountCollector(): fixme_counts is bound to the default argument, the
\* one defaultdict evaluated when the def statement ran.
FixmeCountCollector_init(id) ==
    [id |-> id, fixme_counts |-> "default_fixme_counts"]

\* The dict self.fixme_counts refers to.
FixmeCounts(self) ==
    IF self.fixme_counts = "default_fixme_counts" THEN default_fixme_counts ELSE <<>>

\* dict(self.fixme_counts)
FixmeCountCollector_build_json(self) ==
    FixmeCounts(self)

----------------------------------------------------------------------------
(* Syntax-tree nodes.  A tree is the sequence of its nodes in the order the  *)
(* traversal reaches them (depth first, parent before children); depth is   *)
(* the number of enclosing class and function bodies.                       *)

Depths == {0, 1}
Annotations == {None, "int"}
Params == [annotation : Annotations]

SeqsUpTo(S, n) == UNION {[1..m -> S] : m \in 0..n}

FunctionDefs ==
    {[kind |-> "FunctionDef", returns |-> r, default_params |-> d, params |-> p, depth |-> dp] :
        r \in Annotations, dp \in Depths,
        d \in SeqsUpTo(Params, MaxParams), p \in SeqsUpTo(Params, MaxParams)}

Assigns == {[kind |-> "Assign", depth |-> dp] : dp \in Depths}
AnnAssigns == {[kind |-> "AnnAssign", depth |-> dp] : dp \in Depths}

CommentHeads ==
    {fixme_regex_prefix,
     <<" ">> \o fixme_regex_prefix,
     <<"#", " ", "p", "y", "r", "e", "-", "i", "g", "n", "o", "r", "e", "[">>}
CommentCodes == {<<>>, <<"7">>, <<"0", "7">>}
CommentTails == {<<"]", ":", " ", "x">>, <<"]">>, <<"x", "]", ":">>}

Comments ==
    {[kind |-> "Comment", value |-> h \o c \o t] :
        h \in CommentHeads, c \in CommentCodes, t \in CommentTails}
    \cup {[kind |-> "Comment", value |-> <<"#", " ", "n", "o", "t", "-", "a", "-", "f", "i", "x", "m", "e">>]}

Others == {[kind |-> "Name"]}

Nodes == {f \in FunctionDefs : Len(f.default_params) + Len(f.params) <= MaxParams}
         \cup Assigns \cup AnnAssigns \cup Comments \cup Others

NoNode == [kind |-> "none"]

----------------------------------------------------------------------------
(* VisitSpec: collectors constructed with no arguments and driven through   *)
(* arbitrary visits.  As in _run, a pass drives one collector; the next     *)
(* pass starts with newly constructed collectors.                           *)

pipeIdle ==
    /\ paths = <<>> /\ run = 0 /\ k = 0 /\ parsed_paths = <<>> /\ i = 0 /\ j = 0
    /\ visits = <<>> /\ returned = <<>> /\ stdout = <<>>
    /\ inputs = <<>> /\ constructed_with = <<>>

pathIdle ==
    /\ local_configuration = <<>> /\ filter_paths = <<>> /\ found = <<>>

VisitInit ==
    /\ pipeIdle /\ pathIdle
    /\ pc = "constructed"
    /\ annotations = AnnotationCountCollector_init(1)
    /\ fixmes = FixmeCountCollector_init(2)
    /\ default_fixme_counts = <<>>
    /\ next_id = 3
    /\ node = NoNode
    /\ steps = 0
    /\ matched = <<>>

\* The digit strings ds for which text starts with "# pyre-fixme[" ds "]:".
MarkerCodes(text) ==
    {ds \in {SubSeq(text, 14, 13 + n) : n \in 0..(Len(text) - 15)} :
        /\ \A n \in 1..Len(ds) : ds[n] \in Digits
        /\ SubSeq(text, 1, 13 + Len(ds) + 2) =
               <<"#", " ", "p", "y", "r", "e", "-", "f", "i", "x", "m", "e", "[">>
               \o ds \o <<"]", ":">>}

\* History of the marker codes of the comments the suppression collectors
\* have visited, oldest first.
Record(nd) ==
    IF nd.kind = "Comment" /\ MarkerCodes(nd.value) # {}
    THEN Append(matched, CHOOSE ds \in MarkerCodes(nd.value) : TRUE)
    ELSE matched

VisitAnnotations(nd) ==
    /\ pc \in {"constructed", "visited_annotations"}
    /\ steps < MaxVisits
    /\ annotations' = AnnotationCountCollector_on_visit(annotations, nd)
    /\ node' = nd
    /\ steps' = steps + 1
    /\ pc' = "visited_annotations"
    /\ UNCHANGED <<fixmes, default_fixme_counts, next_id, matched>>
    /\ UNCHANGED pipeVars
    /\ UNCHANGED pathVars

VisitFixmes(nd) ==
    /\ pc \in {"constructed", "visited_fixmes"}
    /\ steps < MaxVisits
    /\ default_fixme_counts' = FixmeCountCollector_on_visit(FixmeCounts(fixmes), nd)
    /\ matched' = Record(nd)
    /\ node' = nd
    /\ steps' = steps + 1
    /\ pc' = "visited_fixmes"
    /\ UNCHANGED <<annotations, fixmes, next_id>>
    /\ UNCHANGED pipeVars
    /\ UNCHANGED pathVars

\* AnnotationCountCollector() and FixmeCountCollector(), as in _run.
Construct ==
    /\ pc # "constructed"
    /\ annotations' = AnnotationCountCollector_init(next_id)
    /\ fixmes' = FixmeCountCollector_init(next_id + 1)
    /\ next_id' = next_id + 2
    /\ node' = NoNode
    /\ pc' = "constructed"
    /\ UNCHANGED <<default_fixme_counts, matched, steps>>
    /\ UNCHANGED pipeVars
    /\ UNCHANGED pathVars

VisitNext ==
    \/ \E nd \in Nodes : VisitAnnotations(nd)
    \/ \E nd \in Nodes : VisitFixmes(nd)
    \/ Construct

VisitSpec == VisitInit /\ [][VisitNext]_vars

----------------------------------------------------------------------------
(* Claims checked under VisitSpec *)

AnnotatedIn(parameters) ==
    Cardinality({n \in 1..Len(parameters) : parameters[n].annotation # None})

Occurrences(seq, x) == Cardinality({n \in 1..Len(seq) : seq[n] = x})

Elements(seq) == {seq[n] : n \in 1..Len(seq)}

AnnotationVisit == pc' = "visited_annotations" /\ steps' = steps + 1
FixmeVisit == pc' = "visited_fixmes" /\ steps' = steps + 1

\* C1: in every state of a collector created with zero counters and driven
\* through any visits, each annotated count is at most the matching total.
C1_AnnotatedAtMostTotal ==
    /\ annotations.annotated_return_count <= annotations.return_count
    /\ annotations.annotated_parameter_count <= annotations.parameter_count
    /\ annotations.annotated_globals_count <= annotations.globals_count

C1_Witness ==
    /\ annotations.annotated_return_count = 1
    /\ annotations.return_count = 2
    /\ annotations.annotated_parameter_count >= 1
    /\ annotations.parameter_count > annotations.annotated_parameter_count

\* C4: a visit of a function definition with N parameters over both
\* sub-lists, K of them annotated, adds N to parameter_count, K to
\* annotated_parameter_count, 1 to return_count, and 1 to
\* annotated_return_count exactly when there is a return annotation.
C4_FunctionDefStep ==
    (AnnotationVisit /\ node'.kind = "FunctionDef") =>
        LET N == Len(node'.default_params) + Len(node'.params)
            K == AnnotatedIn(node'.default_params) + AnnotatedIn(node'.params)
        IN /\ annotations'.parameter_count = annotations.parameter_count + N
           /\ annotations'.annotated_parameter_count = annotations.annotated_parameter_count + K
           /\ annotations'.return_count = annotations.return_count + 1
           /\ annotations'.annotated_return_count =
                  annotations.annotated_return_count + (IF node'.returns # None THEN 1 ELSE 0)

C4_FunctionDefCounts == [][C4_FunctionDefStep]_vars

C4_Witness ==
    /\ pc = "visited_annotations" /\ steps = 2
    /\ node.kind = "FunctionDef" /\ node.depth = 1
    /\ Len(node.default_params) = 1 /\ Len(node.params) = 1
    /\ AnnotatedIn(node.default_params) = 1 /\ AnnotatedIn(node.params) = 0
    /\ node.returns = None
    /\ annotations.return_count = 2 /\ annotations.annotated_return_count = 1
    /\ annotations.parameter_count = 2 /\ annotations.annotated_parameter_count = 1

\* C5: a visit of a plain assignment adds 1 to globals_count and nothing to
\* annotated_globals_count; a visit of an annotated assignment adds 1 to
\* both; either leaves the return and parameter counters alone, whatever
\* the depth of the statement.
C5_AssignStep ==
    /\ (AnnotationVisit /\ node'.kind = "Assign") =>
           annotations' = [annotations EXCEPT !.globals_count = @ + 1]
    /\ (AnnotationVisit /\ node'.kind = "AnnAssign") =>
           annotations' = [annotations EXCEPT !.globals_count = @ + 1,
                                              !.annotated_globals_count = @ + 1]

C5_AssignCounts == [][C5_AssignStep]_vars

C5_Witness ==
    /\ pc = "visited_annotations" /\ steps = 2
    /\ node.kind = "AnnAssign" /\ node.depth = 1
    /\ annotations.globals_count = 2 /\ annotations.annotated_globals_count = 1
    /\ annotations.return_count = 0 /\ annotations.parameter_count = 0

\* C6: a visit of a comment that starts with the marker adds 1 to the
\* counter of exactly its digit string (the empty string included) and
\* changes no other key; any other comment leaves the mapping as it is; so
\* the mapping holds exactly the codes matched, each with its number of
\* matches (over the visits recorded into that mapping).
C6_CommentStep ==
    (FixmeVisit /\ node'.kind = "Comment") =>
        LET codes == MarkerCodes(node'.value)
        IN IF codes = {}
           THEN default_fixme_counts' = default_fixme_counts
           ELSE \E code \in codes :
                  /\ Get(default_fixme_counts', code) = Get(default_fixme_counts, code) + 1
                  /\ Keys(default_fixme_counts') = Keys(default_fixme_counts) \cup {code}
                  /\ \A other \in Keys(default_fixme_counts') \ {code} :
                         Get(default_fixme_counts', other) = Get(default_fixme_counts, other)

C6_Tally ==
    /\ Keys(default_fixme_counts) = Elements(matched)
    /\ Len(default_fixme_counts) = Cardinality(Keys(default_fixme_counts))
    /\ \A code \in Keys(default_fixme_counts) :
           Get(default_fixme_counts, code) = Occurrences(matched, code)

----------------------------------------------------------------------------
(* The file system and the parser, as far as _parse_paths sees them.        *)

NameA == <<"a", ".", "p", "y">>
NameB == <<"b", ".", "p", "y">>
NameC == <<"c", ".", "p", "y">>
NameBad == <<"b", "a", "d", ".", "p", "y">>
NameGone == <<"g", "o", "n", "e", ".", "p", "y">>
NameInit == <<"_", "_", "i", "n", "i", "t", "_", "_", ".", "p", "y">>
NameHidden == <<".", "h", ".", "p", "y">>

FixmeComment(code, tail) ==
    [kind |-> "Comment", value |-> fixme_regex_prefix \o code \o <<"]", ":">> \o tail]

\* x = 1 / def f(a) -> int: return a
TreeA ==
    << [kind |-> "Assign", depth |-> 0],
       [kind |-> "FunctionDef", returns |-> "int", default_params |-> <<>>,
        params |-> <<[annotation |-> None]>>, depth |-> 0],
       [kind |-> "Name"] >>

\* # pyre-fixme[10]: / y: int = 2
TreeB ==
    << FixmeComment(<<"1", "0">>, <<>>),
       [kind |-> "AnnAssign", depth |-> 0] >>

\* class K: / # pyre-fixme[]: x / z = 0 / def g(self, b: int = 1): / # pyre-fixme[10]: y
\* / # not-a-fixme
TreeC ==
    << FixmeComment(<<>>, <<" ", "x">>),
       [kind |-> "Assign", depth |-> 1],
       [kind |-> "FunctionDef", returns |-> None,
        default_params |-> <<[annotation |-> "int"]>>,
        params |-> <<[annotation |-> None]>>, depth |-> 1],
       FixmeComment(<<"1", "0">>, <<" ", "y">>),
       [kind |-> "Comment", value |-> <<"#", " ", "n", "o", "t", "-", "a", "-", "f", "i", "x", "m", "e">>] >>

\* What a file holds: text a tree parses from, text that does not parse, or
\* nothing that can be read.
File(name, readable, parses, tree) ==
    [name |-> name, readable |-> readable, parses |-> parses, tree |-> tree]

FileA == File(NameA, TRUE, TRUE, TreeA)
FileB == File(NameB, TRUE, TRUE, TreeB)
FileC == File(NameC, TRUE, TRUE, TreeC)
FileBad == File(NameBad, TRUE, FALSE, <<>>)
FileGone == File(NameGone, FALSE, FALSE, <<>>)
FileInit == File(NameInit, TRUE, FALSE, <<>>)
FileHidden == File(NameHidden, FALSE, FALSE, <<>>)

\* A path: a directory with the files target_directory.glob("**/*.py")
\* yields, in that order, or anything else (is_dir() is False).
Directory(files) == [is_dir |-> TRUE, files |-> files]
Plain(file) == [is_dir |-> FALSE, files |-> <<file>>]

PathEntries ==
    {Plain(FileA), Plain(FileB), Plain(FileBad), Plain(FileGone),
     Directory(<<FileInit, FileC, FileHidden>>), Directory(<<FileB, FileBad>>),
     Directory(<<>>)}

Batches == SeqsUpTo(PathEntries, MaxPaths)

----------------------------------------------------------------------------
(* _get_paths, _parse_file, _parse_directory, _parse_paths                  *)

_get_paths(target_directory) ==
    LET Keep(file) == /\ ~StartsWithAt(file.name, <<"_", "_">>, 1)
                      /\ ~StartsWithAt(file.name, <<".">>, 1)
    IN SelectSeq(target_directory.files, Keep)

\* cst.parse_module(path.read_text()): a tree, or the exception raised.
_parse_file(file) ==
    IF ~file.readable THEN [raised |-> "ReadError", trees |-> <<>>]
    ELSE IF ~file.parses THEN [raised |-> "ParseError", trees |-> <<>>]
    ELSE [raised |-> None, trees |-> <<file.tree>>]

RECURSIVE parse_files(_, _)
parse_files(files, new_files) ==
    IF files = <<>> THEN [raised |-> None, trees |-> new_files]
    ELSE LET one == _parse_file(Head(files))
         IN IF one.raised # None THEN [raised |-> one.raised, trees |-> <<>>]
            ELSE parse_files(Tail(files), new_files \o one.trees)

_parse_directory(directory) ==
    parse_files(_get_paths(directory), <<>>)

\* Mutant: a file that cannot be read or parsed is passed over.
parse_path_skip_failed(path) ==
    LET got == IF path.is_dir THEN _parse_directory(path) ELSE _parse_file(path.files[1])
    IN IF got.raised # None THEN [raised |-> None, trees |-> <<>>] ELSE got

\* One iteration of the loop of _parse_paths.
parse_path(path) ==
    IF path.is_dir THEN _parse_directory(path) ELSE _parse_file(path.files[1])

----------------------------------------------------------------------------
(* Statistics._run, step by step.                                           *)

json_dumps(as_json) ==
    <<"annotations", as_json.annotations, "fixmes", as_json.fixmes>>

Init ==
    /\ pathIdle
    /\ paths \in Batches
    /\ run = 0 /\ pc = "idle" /\ k = 0 /\ parsed_paths = <<>> /\ i = 0 /\ j = 0
    /\ visits = <<>> /\ returned = <<>> /\ stdout = <<>> /\ inputs = <<>>
    /\ constructed_with = <<>>
    /\ annotations = AnnotationCountCollector_init(0)
    /\ fixmes = FixmeCountCollector_init(0)
    /\ default_fixme_counts = <<>>
    /\ next_id = 1
    /\ node = NoNode
    /\ steps = 0
    /\ matched = <<>>

\* _run is entered; between two calls the batch stays as it is or its files
\* are gone.  paths = _find_paths(...), then _parse_paths starts.
StartRun ==
    /\ pc \in {"idle", "done", "raised"}
    /\ run < MaxRuns
    /\ run' = run + 1
    /\ paths' \in (IF run = 0 THEN {paths} ELSE {paths, <<>>})
    /\ inputs' = Append(inputs, paths')
    /\ pc' = "parse"
    /\ k' = 1
    /\ parsed_paths' = <<>>
    /\ i' = 0 /\ j' = 0
    /\ visits' = <<>> /\ returned' = <<>>
    /\ UNCHANGED <<annotations, fixmes, default_fixme_counts, next_id, stdout, matched,
                   constructed_with>>
    /\ UNCHANGED visitVars /\ UNCHANGED pathVars

\* _parse_paths: one path; an exception leaves _run.
ParsePath ==
    /\ pc = "parse"
    /\ k <= Len(paths)
    /\ LET got == parse_path(paths[k])
       IN IF got.raised # None
          THEN /\ pc' = "raised"
               /\ UNCHANGED <<k, parsed_paths>>
          ELSE /\ parsed_paths' = parsed_paths \o got.trees
               /\ k' = k + 1
               /\ pc' = pc
    /\ UNCHANGED <<paths, run, i, j, annotations, fixmes, default_fixme_counts, next_id,
                   visits, returned, stdout, matched, inputs, constructed_with>>
    /\ UNCHANGED visitVars /\ UNCHANGED pathVars

\* line 162: AnnotationCountCollector() is built and passed to _count.
CountAnnotations ==
    /\ pc = "parse"
    /\ k > Len(paths)
    /\ annotations' = AnnotationCountCollector_init(next_id)
    /\ next_id' = next_id + 1
    /\ pc' = "count_annotations"
    /\ i' = 1 /\ j' = 0
    /\ UNCHANGED <<paths, run, k, parsed_paths, fixmes, default_fixme_counts, visits,
                   returned, stdout, matched, inputs, constructed_with>>
    /\ UNCHANGED visitVars /\ UNCHANGED pathVars

Counting == pc \in {"count_annotations", "count_fixmes"}
Collector == IF pc = "count_annotations" THEN annotations ELSE fixmes

\* _count: path.visit(collector) is called for the next tree.
Count_Begin ==
    /\ Counting
    /\ i <= Len(parsed_paths)
    /\ j = 0
    /\ visits' = Append(visits, [tree |-> i, collector |-> Collector.id, nodes |-> 0])
    /\ j' = 1
    /\ UNCHANGED <<paths, run, pc, k, parsed_paths, i, annotations, fixmes,
                   default_fixme_counts, next_id, returned, stdout, matched, inputs,
                   constructed_with>>
    /\ UNCHANGED visitVars /\ UNCHANGED pathVars

\* The traversal reaches the next node and calls the collector's handler.
Count_Visit ==
    /\ Counting
    /\ i <= Len(parsed_paths)
    /\ j >= 1 /\ j <= Len(parsed_paths[i])
    /\ LET nd == parsed_paths[i][j]
       IN IF pc = "count_annotations"
          THEN /\ annotations' = AnnotationCountCollector_on_visit(annotations, nd)
               /\ UNCHANGED <<default_fixme_counts, matched>>
          ELSE /\ default_fixme_counts' =
                      FixmeCountCollector_on_visit(FixmeCounts(fixmes), nd)
               /\ matched' = Record(nd)
               /\ UNCHANGED annotations
    /\ visits' = [visits EXCEPT ![Len(visits)].nodes = @ + 1]
    /\ j' = j + 1
    /\ UNCHANGED <<paths, run, pc, k, parsed_paths, i, fixmes, next_id, returned, stdout,
                   inputs, constructed_with>>
    /\ UNCHANGED visitVars /\ UNCHANGED pathVars

\* Mutant: the counters start again with each tree.
Count_End_reset ==
    /\ Counting
    /\ i <= Len(parsed_paths)
    /\ j > Len(parsed_paths[i])
    /\ i' = i + 1
    /\ j' = 0
    /\ annotations' = IF pc = "count_annotations" /\ i < Len(parsed_paths)
                      THEN AnnotationCountCollector_init(annotations.id)
                      ELSE annotations
    /\ UNCHANGED <<paths, run, pc, k, parsed_paths, fixmes,
                   default_fixme_counts, next_id, visits, returned, stdout, matched,
                   inputs, constructed_with>>
    /\ UNCHANGED visitVars /\ UNCHANGED pathVars

\* Mutant: the tree after the one just visited is passed over.
Count_End_skip ==
    /\ Counting
    /\ i <= Len(parsed_paths)
    /\ j > Len(parsed_paths[i])
    /\ i' = IF i < Len(parsed_paths) THEN i + 2 ELSE i + 1
    /\ j' = 0
    /\ UNCHANGED <<paths, run, pc, k, parsed_paths, annotations, fixmes,
                   default_fixme_counts, next_id, visits, returned, stdout, matched,
                   inputs, constructed_with>>
    /\ UNCHANGED visitVars /\ UNCHANGED pathVars

\* path.visit(collector) returns; the loop of _count goes on.
Count_End ==
    /\ Counting
    /\ i <= Len(parsed_paths)
    /\ j > Len(parsed_paths[i])
    /\ i' = i + 1
    /\ j' = 0
    /\ UNCHANGED <<paths, run, pc, k, parsed_paths, annotations, fixmes,
                   default_fixme_counts, next_id, visits, returned, stdout, matched,
                   inputs, constructed_with>>
    /\ UNCHANGED visitVars /\ UNCHANGED pathVars

\* _count returns collector; line 163: FixmeCountCollector() is built and
\* passed to _count.
CountFixmes ==
    /\ pc = "count_annotations"
    /\ i > Len(parsed_paths)
    /\ returned' = Append(returned, annotations.id)
    /\ fixmes' = FixmeCountCollector_init(next_id)
    /\ constructed_with' = default_fixme_counts
    /\ next_id' = next_id + 1
    /\ pc' = "count_fixmes"
    /\ i' = 1 /\ j' = 0
    /\ UNCHANGED <<paths, run, k, parsed_paths, annotations, default_fixme_counts, visits,
                   stdout, matched, inputs>>
    /\ UNCHANGED visitVars /\ UNCHANGED pathVars

\* _count returns collector; lines 164-168: the report is built and written.
Emit ==
    /\ pc = "count_fixmes"
    /\ i > Len(parsed_paths)
    /\ returned' = Append(returned, fixmes.id)
    /\ LET as_json == [annotations |-> AnnotationCountCollector_build_json(annotations),
                       fixmes |-> FixmeCountCollector_build_json(fixmes)]
       IN stdout' = Append(stdout, json_dumps(as_json))
    /\ pc' = "done"
    /\ UNCHANGED <<paths, run, k, parsed_paths, i, j, annotations, fixmes,
                   default_fixme_counts, next_id, visits, matched, inputs,
                   constructed_with>>
    /\ UNCHANGED visitVars /\ UNCHANGED pathVars

Next ==
    \/ StartRun
    \/ ParsePath
    \/ CountAnnotations
    \/ Count_Begin
    \/ Count_Visit
    \/ Count_End
    \/ CountFixmes
    \/ Emit

Spec == Init /\ [][Next]_vars

----------------------------------------------------------------------------
(* Claims checked under Spec *)

RECURSIVE SumSeq(_)
SumSeq(ns) == IF ns = <<>> THEN 0 ELSE Head(ns) + SumSeq(Tail(ns))

HowMany(nodes, Is(_)) == Cardinality({n \in 1..Len(nodes) : Is(nodes[n])})

IsFunctionDef(nd) == nd.kind = "FunctionDef"
IsAnnotatedReturn(nd) == nd.kind = "FunctionDef" /\ nd.returns # None
IsAssignment(nd) == nd.kind \in {"Assign", "AnnAssign"}
IsAnnAssign(nd) == nd.kind = "AnnAssign"

\* What one sequence of nodes adds to the six counters.
Contribution(nodes) ==
    [return_count |-> HowMany(nodes, IsFunctionDef),
     annotated_return_count |-> HowMany(nodes, IsAnnotatedReturn),
     globals_count |-> HowMany(nodes, IsAssignment),
     annotated_globals_count |-> HowMany(nodes, IsAnnAssign),
     parameter_count |->
        SumSeq([n \in 1..Len(nodes) |->
                  IF IsFunctionDef(nodes[n])
                  THEN Len(nodes[n].default_params) + Len(nodes[n].params) ELSE 0]),
     annotated_parameter_count |->
        SumSeq([n \in 1..Len(nodes) |->
                  IF IsFunctionDef(nodes[n])
                  THEN AnnotatedIn(nodes[n].default_params) + AnnotatedIn(nodes[n].params)
                  ELSE 0])]

\* The number of comments of nodes that carry the marker with this code.
FixmeContribution(nodes, code) ==
    Cardinality({n \in 1..Len(nodes) :
                    nodes[n].kind = "Comment" /\ code \in MarkerCodes(nodes[n].value)})

CodesIn(nodes) ==
    UNION {IF nodes[n].kind = "Comment" THEN MarkerCodes(nodes[n].value) ELSE {} :
              n \in 1..Len(nodes)}

\* The sum of the trees' contributions, counter by counter.
SumOfTrees(trees) ==
    LET each == [t \in 1..Len(trees) |-> Contribution(trees[t])]
    IN [return_count |-> SumSeq([t \in 1..Len(trees) |-> each[t].return_count]),
        annotated_return_count |->
            SumSeq([t \in 1..Len(trees) |-> each[t].annotated_return_count]),
        globals_count |-> SumSeq([t \in 1..Len(trees) |-> each[t].globals_count]),
        annotated_globals_count |->
            SumSeq([t \in 1..Len(trees) |-> each[t].annotated_globals_count]),
        parameter_count |-> SumSeq([t \in 1..Len(trees) |-> each[t].parameter_count]),
        annotated_parameter_count |->
            SumSeq([t \in 1..Len(trees) |-> each[t].annotated_parameter_count])]

FixmeSumOfTrees(trees, code) ==
    SumSeq([t \in 1..Len(trees) |-> FixmeContribution(trees[t], code)])

\* The part of the batch the running pass has been through.
Passed ==
    IF i > Len(parsed_paths) THEN parsed_paths
    ELSE SubSeq(parsed_paths, 1, i - 1)
         \o (IF j >= 1 THEN <<SubSeq(parsed_paths[i], 1, j - 1)>> ELSE <<>>)

AllCodes == UNION {CodesIn(parsed_paths[t]) : t \in 1..Len(parsed_paths)}

\* C7: after _count on a zero-initialized collector every reported counter
\* is the sum of the contributions of the trees of the batch; while the
\* pass runs, it is the sum over the part already visited (nothing is reset
\* between trees, lost or counted twice).
C7_BatchSums ==
    /\ pc = "count_annotations" =>
          AnnotationCountCollector_build_json(annotations) = SumOfTrees(Passed)
    /\ pc \in {"count_fixmes", "done"} =>
          AnnotationCountCollector_build_json(annotations) = SumOfTrees(parsed_paths)
    /\ (pc \in {"count_fixmes", "done"} /\ constructed_with = <<>>) =>
          LET trees == IF pc = "done" THEN parsed_paths ELSE Passed
              report == FixmeCountCollector_build_json(fixmes)
          IN /\ \A code \in AllCodes : Get(report, code) = FixmeSumOfTrees(trees, code)
             /\ \A code \in Keys(report) : FixmeSumOfTrees(trees, code) >= 1

C7_Witness ==
    /\ pc = "done" /\ constructed_with = <<>>
    /\ Len(parsed_paths) = 2
    /\ annotations.return_count = 2 /\ annotations.annotated_return_count = 1
    /\ annotations.parameter_count = 3 /\ annotations.annotated_parameter_count = 1
    /\ annotations.globals_count = 2
    /\ Get(FixmeCounts(fixmes), <<"1", "0">>) = 1
    /\ Get(FixmeCounts(fixmes), <<>>) = 1

\* The files of a batch that are parsed: a path that is no directory, and
\* the files of a directory whose names start neither with "__" nor with ".".
ParsedFiles(batch) ==
    UNION {{<<n, m>> : m \in {m \in 1..Len(batch[n].files) :
                                \/ ~batch[n].is_dir
                                \/ LET name == batch[n].files[m].name
                                   IN name[1] # "." /\ SubSeq(name, 1, 2) # <<"_", "_">>}} :
           n \in 1..Len(batch)}

Fails(batch) ==
    \E at \in ParsedFiles(batch) :
        LET file == batch[at[1]].files[at[2]]
        IN ~file.readable \/ ~file.parses

ReportsDue ==
    Cardinality({r \in 1..(IF pc = "done" THEN run ELSE run - 1) : ~Fails(inputs[r])})

PassesComplete(n) ==
    /\ Len(visits) >= n * Len(parsed_paths)
    /\ \A m \in 1..(n * Len(parsed_paths)) :
          visits[m].nodes = Len(parsed_paths[visits[m].tree])

\* C8: when a file of the batch cannot be read or parsed the run ends in
\* the exception, without a visit and without a report; no visit starts
\* before every file is parsed; a report is written only after both passes
\* over the whole batch.
C8_NoPartialReport ==
    /\ (run >= 1 /\ Fails(paths)) => (pc \in {"parse", "raised"} /\ visits = <<>>)
    /\ pc = "raised" => Fails(paths)
    /\ Len(stdout) = ReportsDue
    /\ visits # <<>> =>
          (k > Len(paths) /\ Len(parsed_paths) = Cardinality(ParsedFiles(paths)))
    /\ pc = "done" => (PassesComplete(2) /\ Len(returned) = 2)

C8_Witness ==
    /\ pc = "raised" /\ k = 2
    /\ parsed_paths # <<>>
    /\ visits = <<>> /\ stdout = <<>>

\* C9: _count starts the visit of each tree once, in sequence order, a tree
\* being visited to its end before the next begins, always with the
\* collector it was given, and returns that collector; the annotation pass
\* ends before the suppression pass starts, and both go over the same trees.
C9_CountOrder ==
    LET n == Len(parsed_paths)
    IN /\ \A m \in 1..Len(visits) :
             /\ visits[m].tree = ((m - 1) % n) + 1
             /\ visits[m].collector = (IF m <= n THEN annotations.id ELSE fixmes.id)
             /\ m < Len(visits) => visits[m].nodes = Len(parsed_paths[visits[m].tree])
       /\ pc = "count_annotations" =>
             /\ Len(visits) = (IF j >= 1 THEN i ELSE i - 1)
             /\ returned = <<>>
       /\ pc = "count_fixmes" =>
             /\ Len(visits) = n + (IF j >= 1 THEN i ELSE i - 1)
             /\ PassesComplete(1)
             /\ returned = <<annotations.id>>
             /\ annotations.id # fixmes.id
       /\ pc = "done" =>
             /\ Len(visits) = 2 * n
             /\ PassesComplete(2)
             /\ returned = <<annotations.id, fixmes.id>>

C9_Witness ==
    /\ pc = "done" /\ run = 2
    /\ Len(parsed_paths) = 2
    /\ Len(visits) = 4
    /\ visits[2].collector # visits[3].collector

ZeroReport ==
    json_dumps([annotations |->
                    AnnotationCountCollector_build_json(AnnotationCountCollector_init(0)),
                fixmes |-> <<>>])

\* C2: a collector constructed with no arguments starts with zero counters
\* and an empty mapping, whatever was constructed and driven before it in
\* the process; so a run over zero trees reports zeros and an empty mapping.
C2_FreshCollectorsStartEmpty ==
    /\ (pc = "count_annotations" /\ i = 1 /\ j = 0) =>
          AnnotationCountCollector_build_json(annotations) =
             AnnotationCountCollector_build_json(AnnotationCountCollector_init(0))
    /\ (pc = "count_fixmes" /\ i = 1 /\ j = 0) => FixmeCounts(fixmes) = <<>>
    /\ (pc = "done" /\ parsed_paths = <<>>) => stdout[Len(stdout)] = ZeroReport

\* C2, its last part alone: a run over zero trees writes the zero report.
C2_ZeroTreesZeroReport ==
    (pc = "done" /\ parsed_paths = <<>>) => stdout[Len(stdout)] = ZeroReport

\* C3: a second run on unchanged input writes the report the first wrote.
C3_RerunSameReport ==
    (pc = "done" /\ run >= 2 /\ inputs[run] = inputs[run - 1]) =>
        stdout[Len(stdout)] = stdout[Len(stdout) - 1]

----------------------------------------------------------------------------
(* _find_paths *)

MarkerStem == <<".", "p", "y", "r", "e", "_", "c", "o", "n", "f", "i", "g", "u", "r", "a",
                "t", "i", "o", "n">>
MarkerExtension == <<".", "l", "o", "c", "a", "l">>

\* ".pyre_configuration.local"
Marker == MarkerStem \o MarkerExtension

\* str.replace(old, new): the occurrences of old, found from the left and
\* not overlapping, are each replaced by new.
RECURSIVE str_replace(_, _, _)
str_replace(s, old, new) ==
    IF s = <<>> THEN <<>>
    ELSE IF StartsWithAt(s, old, 1)
         THEN new \o str_replace(SubSeq(s, Len(old) + 1, Len(s)), old, new)
         ELSE <<Head(s)>> \o str_replace(Tail(s), old, new)

\* The components of a path string: the runs of characters between "/".
RECURSIVE Split(_, _)
Split(s, current) ==
    IF s = <<>> THEN <<current>>
    ELSE IF Head(s) = "/" THEN <<current>> \o Split(Tail(s), <<>>)
         ELSE Split(Tail(s), Append(current, Head(s)))

IsPart(component) == component # <<>> /\ component # <<".">>

\* pathlib.Path(s) on POSIX: the root ("", "/", or "//" for exactly two
\* leading slashes) and the components, empty ones and "." dropped.
Path(s) ==
    [root |-> IF StartsWithAt(s, <<"/", "/", "/">>, 1) THEN "/"
              ELSE IF StartsWithAt(s, <<"/", "/">>, 1) THEN "//"
              ELSE IF StartsWithAt(s, <<"/">>, 1) THEN "/"
              ELSE "",
     parts |-> SelectSeq(Split(s, <<>>), IsPart)]

\* Path / str: an absolute right operand replaces the left one.
PathJoin(base, other) ==
    LET right == Path(other)
    IN IF right.root # "" THEN right
       ELSE [root |-> base.root, parts |-> base.parts \o right.parts]

\* Path.cwd()
Cwd == Path(<<"/", "w">>)

_find_paths(local_config, filters) ==
    LET pyre_configuration_directory ==
            IF local_config # <<>>
            THEN Path(str_replace(local_config, Marker, <<>>))
            ELSE Cwd
    IN IF filters # <<>>
       THEN [n \in 1..Len(filters) |-> PathJoin(pyre_configuration_directory, filters[n])]
       ELSE <<pyre_configuration_directory>>

OverridePieces == {<<"/">>, <<"a">>, MarkerStem, MarkerExtension}
Overrides == {Concat(pieces) : pieces \in SeqsUpTo(OverridePieces, MaxPieces)}
Filters == {<<"a">>, <<"b", "/", "a">>, <<"/", "b">>}
FilterLists == SeqsUpTo(Filters, MaxFilters)

PathInit ==
    /\ pipeIdle
    /\ pc = "arguments"
    /\ local_configuration \in Overrides
    /\ filter_paths \in FilterLists
    /\ found = <<>>
    /\ annotations = AnnotationCountCollector_init(0)
    /\ fixmes = FixmeCountCollector_init(0)
    /\ default_fixme_counts = <<>>
    /\ next_id = 1
    /\ node = NoNode
    /\ steps = 0
    /\ matched = <<>>

FindPaths ==
    /\ pc = "arguments"
    /\ found' = _find_paths(local_configuration, filter_paths)
    /\ pc' = "found"
    /\ UNCHANGED <<local_configuration, filter_paths, annotations, fixmes,
                   default_fixme_counts, next_id, matched>>
    /\ UNCHANGED pipeVars /\ UNCHANGED visitVars

PathNext == FindPaths

PathSpec == PathInit /\ [][PathNext]_vars

----------------------------------------------------------------------------
(* Claim checked under PathSpec *)

EndsWith(s, suffix) ==
    Len(s) >= Len(suffix) /\ SubSeq(s, Len(s) - Len(suffix) + 1, Len(s)) = suffix

\* s without the marker at its end, the rest of s as it is.
StripTrailingMarker(s) ==
    IF EndsWith(s, Marker) THEN SubSeq(s, 1, Len(s) - Len(Marker)) ELSE s

\* C10: the base is the override without a trailing marker, the rest of the
\* string unchanged (the current directory without an override); the result
\* is the base alone without filters, else base/filter for each filter, in
\* input order, duplicates kept.
C10_TrailingMarkerOnly ==
    pc = "found" =>
        LET base == IF local_configuration # <<>>
                    THEN Path(StripTrailingMarker(local_configuration))
                    ELSE Cwd
        IN found = IF filter_paths = <<>> THEN <<base>>
                   ELSE [n \in 1..Len(filter_paths) |-> PathJoin(base, filter_paths[n])]

====
